---- MODULE Spec2Model ----
(***************************************************************************)
(* Model of minerva's DagScheduler (minerva/backend/dag/dag_scheduler.cpp). *)
(*                                                                         *)
(* Threads: frontend threads (Create, Wait, WaitForAll, GetValue, handle   *)
(* drops and the OnExternRCUpdate callback), the single dispatcher thread   *)
(* (DispatcherRoutine) and the device threads (OnOperationComplete).        *)
(*                                                                         *)
(* PhysicalDag, RuntimeInfoMap, MultiNodeLock and DagChunk are declared in  *)
(* headers that are not part of the sources at hand; their behaviour is     *)
(* taken from the design document (sets of predecessors and successors,     *)
(* removal detaches a node from its neighbours, a lock covers a node and    *)
(* its neighbours).  Single operations of the runtime-info map and of the  *)
(* dispatch queue are taken to be atomic, and the counters are integers     *)
(* without wrap-around.                                                     *)
(*                                                                         *)
(* A step of the model is the part of a handler that runs without taking or *)
(* giving up a lock: Create up to its MultiNodeLock, then the locked part up *)
(* to the increment of num_nodes_yet_to_finish_, then the enqueue; the       *)
(* dispatcher's pop, then its branch inside the MultiNodeLock up to the loop *)
(* over the successors, then for each successor the trigger with the         *)
(* increment and, as a step of its own, the enqueue, then the decrement,     *)
(* then the notification under finish_mutex_; Wait and WaitForAll up to the  *)
(* point where they block on finish_cond_.                                   *)
(*                                                                         *)
(* The edge sets are unordered: a loop over one visits it in any order.  The *)
(* constructor does not initialise target_, so it starts with any value.    *)
(***************************************************************************)
EXTENDS Integers, Sequences, FiniteSets, TLC

\* ---------------------------------------------------------------- bounds
MaxNodes == 5        \* number of DAG nodes ever allocated
MaxOps == 2          \* number of Create calls
MaxParams == 2       \* length of a params list
MaxResults == 2      \* number of result shapes of a Create
NumWaiters == 2      \* frontend threads that call Wait
MaxReplays == 1      \* duplicate OnOperationComplete deliveries (ReplaySpec)
MaxGetValues == 1    \* GetValue calls

\* -------------------------------------------------------------- constants
NoTarget == -1       \* target_ when no Wait is in progress

Waiters == 1 .. NumWaiters
Ids == 0 .. (MaxNodes - 1)

VARIABLES
  nextId,      \* PhysicalDag: next node id to allocate
  nodes,       \* PhysicalDag: ids of the nodes in the DAG
  ntype,       \* node id -> "data" | "op"
  preds,       \* node id -> predecessors_ (a set)
  succs,       \* node id -> successors_ (a set)
  rt,          \* rt_info_: node id -> [state, reference_count, num_triggers_needed]
  extern_rc,   \* data node id -> data_.extern_rc
  queue,       \* dispatcher_queue_: sequence of <<kind, node id>>
  onDevice,    \* ids of the tasks pushed to a device and not yet reported
  num,         \* num_nodes_yet_to_finish_
  target,      \* target_
  fatal,       \* "none", or the check that aborted the process
  cpc, cop, cmnl,     \* Create: position, op node being created, MultiNodeLock held
  cparams, crst,      \* Create: params of the call in progress, its result nodes
  dpc, dnode, mnl,    \* dispatcher: position, node of the event, MultiNodeLock held
  dev,         \* dispatcher: the event it has popped and not yet processed
  dtodo,       \* dispatcher: successors the loop of line 218 has yet to visit
  pendingRC,   \* data nodes whose extern_rc dropped to 0, callback not yet run
  wpc, wh,     \* Wait threads: position and handle
  wfa, wfaOps, \* WaitForAll thread: position; ops submitted before the call
  pushCount,   \* op id -> number of PushTask calls
  freeCount,   \* data id -> number of FreeData calls
  freedBy,     \* data id -> "none", or the caller of the last FreeData
  replays,     \* duplicate completions delivered so far
  gvCount, gvLast     \* GetValue: calls so far, last outcome

vars == << nextId, nodes, ntype, preds, succs, rt, extern_rc, queue, onDevice,
           num, target, fatal, cpc, cop, cmnl, cparams, crst, dpc, dnode, mnl,
           dev, dtodo, pendingRC,
           wpc, wh, wfa, wfaOps, pushCount, freeCount, freedBy, replays,
           gvCount, gvLast >>

dagVars == << nextId, nodes, ntype, preds, succs, rt >>
waitVars == << wpc, wh, wfa, wfaOps >>
histVars == << pushCount, freeCount, freedBy, replays, gvCount, gvLast >>

\* ---------------------------------------------------------------- helpers
Min(S) == CHOOSE x \in S : \A y \in S : x <= y

SeqsUpTo(S, n) == UNION { [1 .. k -> S] : k \in 0 .. n }

Range(f) == { f[i] : i \in DOMAIN f }

\* the orders in which a loop can visit the unordered set S
Perms(S) == { q \in [1 .. Cardinality(S) -> S] : Range(q) = S }

\* the dispatcher holds no popped event
NoEvent == << "none", NoTarget >>

\* the values target_ can hold after construction: the constructor (lines
\* 15-17) does not initialise it, so -1, a node id or any other value
InitTargets == (NoTarget .. MaxNodes)

\* RuntimeInfoMap::AddNode: a fresh record, state Ready and both counters 0
NewInfo == [state |-> "Ready", reference_count |-> 0, num_triggers_needed |-> 0]

\* the value of rt at an id that has no entry in rt_info_
NoInfo == [state |-> "Absent", reference_count |-> 0, num_triggers_needed |-> 0]

\* id has an entry in the runtime-info map r
InRt(r, id) == r[id].state # "Absent"

\* the nodes a MultiNodeLock(dag, node) covers: the node and its neighbours
CoverNode(n) == {n} \cup preds[n] \cup succs[n]

\* the nodes a MultiNodeLock(dag, nodes[]) covers: each node and its successors
CoverNodes(ns) == ns \cup UNION { succs[n] : n \in ns }

\* ------------------------------------------------------------------- Init
Init ==
  /\ nextId = 0
  /\ nodes = {}
  /\ ntype = [i \in Ids |-> "none"]
  /\ preds = [i \in Ids |-> {}]
  /\ succs = [i \in Ids |-> {}]
  /\ rt = [i \in Ids |-> NoInfo]
  /\ extern_rc = [i \in Ids |-> 0]
  /\ queue = << >>
  /\ onDevice = {}
  /\ num = 0
  /\ target \in InitTargets
  /\ fatal = "none"
  /\ cpc = "idle" /\ cop = NoTarget /\ cmnl = {}
  /\ cparams = << >> /\ crst = {}
  /\ dpc = "idle" /\ dnode = NoTarget /\ mnl = {} /\ dev = NoEvent
  /\ dtodo = << >>
  /\ pendingRC = {}
  /\ wpc = [w \in Waiters |-> "idle"]
  /\ wh = [w \in Waiters |-> NoTarget]
  /\ wfa = "idle" /\ wfaOps = {}
  /\ pushCount = [i \in Ids |-> 0]
  /\ freeCount = [i \in Ids |-> 0]
  /\ freedBy = [i \in Ids |-> "none"]
  /\ replays = 0
  /\ gvCount = 0 /\ gvLast = << NoTarget, "none" >>

\* ----------------------------------------------------------------- Create
\* DagScheduler::OnCreateEdge on the runtime-info map r
OnCreateEdge(r, from, to) ==
  LET r1 == [r EXCEPT ![from].reference_count = @ + 1]
  IN  IF r1[from].state # "Completed"
        THEN [r1 EXCEPT ![to].num_triggers_needed = @ + 1]
        ELSE r1

\* Iter(param_data_nodes, OnCreateEdge(n, op_node)): once per list element
RECURSIVE ParamEdges(_, _, _)
ParamEdges(r, params, op) ==
  IF params = << >> THEN r
  ELSE ParamEdges(OnCreateEdge(r, Head(params), op), Tail(params), op)

\* Iter(rst_data_nodes, OnCreateEdge(op_node, n))
RECURSIVE ResultEdges(_, _, _)
ResultEdges(r, op, rst) ==
  IF rst = {} THEN r
  ELSE LET n == Min(rst) IN ResultEdges(OnCreateEdge(r, op, n), op, rst \ {n})

\* the data nodes the frontend holds a handle to: a DagChunk exists and has
\* been returned by Create
Handles == { d \in nodes : ntype[d] = "data" /\ extern_rc[d] > 0 } \ crst

\* DagScheduler::Create, lines 27-39, outside any lock: the result data nodes
\* enter the DAG and rt_info_ and get their chunks; then Create waits for the
\* MultiNodeLock of line 40
CreateNodes(params, nres) ==
  /\ fatal = "none"
  /\ cpc = "idle"
  /\ nextId + nres + 1 <= MaxNodes
  /\ Cardinality({ i \in 0 .. (nextId - 1) : ntype[i] = "op" }) < MaxOps
  /\ LET rst == nextId .. (nextId + nres - 1)
     IN  /\ nextId' = nextId + nres
         /\ nodes' = nodes \cup rst
         /\ ntype' = [i \in Ids |-> IF i \in rst THEN "data" ELSE ntype[i]]
         /\ rt' = [n \in Ids |-> IF n \in rst THEN NewInfo ELSE rt[n]]
         /\ extern_rc' = [i \in Ids |-> IF i \in rst THEN 1 ELSE extern_rc[i]]
         /\ cpc' = "lock" /\ cparams' = params /\ crst' = rst
  /\ UNCHANGED << preds, succs, cop, cmnl >>
  /\ UNCHANGED << queue, onDevice, num, target, fatal, dpc, dnode, mnl, dev, dtodo, pendingRC >>
  /\ UNCHANGED waitVars
  /\ UNCHANGED histVars

\* DagScheduler::Create, lines 40-51, inside MultiNodeLock(dag_, params), up to
\* and including the increment in ProcessIfReady; an op that is not ready
\* returns here
CreateOp ==
  /\ fatal = "none"
  /\ cpc = "lock"
  /\ LET rst == crst
         op == nextId
         ps == Range(cparams)
         cover == CoverNodes(ps)
         r0 == [rt EXCEPT ![op] = NewInfo]
         r1 == ParamEdges(r0, cparams, op)
         r2 == ResultEdges(r1, op, rst)
     IN  /\ cover \cap mnl = {}
         /\ nextId' = op + 1
         /\ nodes' = nodes \cup {op}
         /\ ntype' = [ntype EXCEPT ![op] = "op"]
         /\ preds' = [i \in Ids |-> IF i \in rst THEN {op}
                                    ELSE IF i = op THEN ps ELSE preds[i]]
         /\ succs' = [i \in Ids |-> IF i \in ps THEN succs[i] \cup {op}
                                    ELSE IF i = op THEN rst ELSE succs[i]]
         /\ rt' = r2
         /\ IF r2[op].num_triggers_needed = 0
              THEN /\ num' = num + 1
                   /\ cpc' = "push" /\ cop' = op /\ cmnl' = cover
                   /\ UNCHANGED << cparams, crst >>
              ELSE /\ num' = num
                   /\ cpc' = "idle" /\ cparams' = << >> /\ crst' = {}
                   /\ UNCHANGED << cop, cmnl >>
  /\ UNCHANGED << extern_rc, queue, onDevice, target, fatal, dpc, dnode, mnl, dev, dtodo, pendingRC >>
  /\ UNCHANGED waitVars
  /\ UNCHANGED histVars

\* ProcessIfReady: dispatcher_queue_.Push({kToRun, node_id}); Create returns
CreatePush ==
  /\ fatal = "none"
  /\ cpc = "push"
  /\ queue' = Append(queue, << "ToRun", cop >>)
  /\ cpc' = "idle" /\ cop' = NoTarget /\ cmnl' = {}
  /\ cparams' = << >> /\ crst' = {}
  /\ UNCHANGED dagVars
  /\ UNCHANGED << extern_rc, onDevice, num, target, fatal, dpc, dnode, mnl, dev, dtodo, pendingRC >>
  /\ UNCHANGED waitVars
  /\ UNCHANGED histVars

\* ------------------------------------------------------------- dispatcher
\* the part of the scheduler state a dispatcher step works on
DState == [rt |-> rt, nodes |-> nodes, preds |-> preds, succs |-> succs,
           free |-> freeCount, num |-> num, queue |-> queue,
           fatal |-> "none", del |-> {}]

SetFatal(s, msg) == [s EXCEPT !.fatal = msg]

\* PhysicalDag::RemoveNodeFromDag followed by OnDeleteNode: the node leaves the
\* index, the edge sets of its neighbours and rt_info_; it keeps its own edge
\* sets until it is deleted at the end of the step
RemoveNode(s, id) ==
  [s EXCEPT !.nodes = @ \ {id},
            !.rt = [@ EXCEPT ![id] = NoInfo],
            !.succs = [n \in Ids |-> IF n \in s.preds[id] THEN @[n] \ {id} ELSE @[n]],
            !.preds = [n \in Ids |-> IF n \in s.succs[id] THEN @[n] \ {id} ELSE @[n]],
            !.del = @ \cup {id}]

\* FreeDataNodeRes: dm_->FreeData(node->data_.data_id)
FreeDataNodeRes(s, id) == [s EXCEPT !.free[id] = @ + 1]

\* PredReclaim without the test of extern_rc
PredReclaim_IgnoreExtern(ri, erc) == ri.reference_count = 0

\* line 190, after the decrement: the predecessor data node is reclaimed
PredReclaim(ri, erc) == ri.reference_count = 0 /\ erc = 0

\* line 200: the completing data node is itself reclaimed
SelfReclaim(ri, erc) == ri.reference_count = 0 /\ erc = 0

\* TriggerReady without the test of the trigger count
TriggerReady_AnyCount(ri) == ri.state = "Ready"

\* line 221: the successor is enqueued as ToRun
TriggerReady(ri) == ri.state = "Ready" /\ ri.num_triggers_needed = 0

\* what the loop of line 185 does each time line 193 has erased from
\* node->predecessors_ the element its iterator stands on (undefined
\* behaviour): it goes on with the next element, it goes back to the
\* elements it has visited before and then on, it ends, or the process dies
IterOutcomes == { "continue", "revisit", "stop", "abort" }

\* the elements of the sequence q that are still nodes of the DAG
StillIn(s, q) == SelectSeq(q, LAMBDA n : n \in s.nodes)

\* lines 185-196: for (auto pred : node->predecessors_), visiting the
\* predecessors in the order todo, done being those visited so far; ub[p] is
\* what the loop does after the erasure of p
RECURSIVE PredLoop(_, _, _, _)
PredLoop(s, done, todo, ub) ==
  IF todo = << >> \/ s.fatal # "none" THEN s
  ELSE LET p == Head(todo) IN
    IF ~InRt(s.rt, p) THEN SetFatal(s, "rt_info_.At")
    ELSE IF s.rt[p].num_triggers_needed # 0 THEN SetFatal(s, "triggers of data node")
    ELSE LET s1 == [s EXCEPT !.rt[p].reference_count = @ - 1]
         IN  IF PredReclaim(s1.rt[p], extern_rc[p])
               THEN LET s2 == RemoveNode(FreeDataNodeRes(s1, p), p)
                    IN  IF ub[p] = "abort" THEN SetFatal(s2, "predecessors_ iterator")
                        ELSE IF ub[p] = "stop" THEN s2
                        ELSE IF ub[p] = "revisit"
                          THEN PredLoop(s2, << >>, StillIn(s2, done) \o Tail(todo), ub)
                          ELSE PredLoop(s2, done, Tail(todo), ub)
               ELSE PredLoop(s1, Append(done, p), Tail(todo), ub)

\* lines 183-196: completion of an op node
CompleteOp(s, id, po, ub) ==
  IF s.rt[id].reference_count = 0 THEN SetFatal(s, "op generated but not needed")
  ELSE PredLoop(s, << >>, po, ub)

\* variant: the producer op is removed at the completion of any output
CompleteData_RetireAtOnce(s, id) ==
  LET s1 == IF SelfReclaim(s.rt[id], extern_rc[id])
              THEN RemoveNode(FreeDataNodeRes(s, id), id)
              ELSE s
      p == Min(s1.preds[id])
  IN  RemoveNode([s1 EXCEPT !.rt[p].reference_count = @ - 1], p)

\* lines 197-215: completion of a data node
CompleteData(s, id) ==
  LET s1 == IF SelfReclaim(s.rt[id], extern_rc[id])
              THEN RemoveNode(FreeDataNodeRes(s, id), id)
              ELSE s
  IN  IF Cardinality(s1.preds[id]) # 1 THEN SetFatal(s1, "data node predecessors")
      ELSE LET p == Min(s1.preds[id]) IN
        IF ~InRt(s1.rt, p) THEN SetFatal(s1, "rt_info_.At")
        ELSE IF s1.rt[p].num_triggers_needed # 0 THEN SetFatal(s1, "triggers of op node")
        ELSE LET s2 == [s1 EXCEPT !.rt[p].reference_count = @ - 1]
             IN  IF s2.rt[p].reference_count = 0 THEN RemoveNode(s2, p) ELSE s2

\* lines 180-217: the completion branch up to the loop over the successors;
\* po is the order in which the loop of line 185 visits the predecessors
CompleteBody(s, id, po, ub) ==
  LET s0 == [s EXCEPT !.rt[id].state = "Completed"]
  IN  IF ntype[id] = "op" THEN CompleteOp(s0, id, po, ub) ELSE CompleteData(s0, id)

\* the event the dispatcher has popped
HeadKind == dev[1]
HeadId == dev[2]

\* the dispatcher can take MultiNodeLock(dag_, node): Create does not hold it
LockFree(id) == CoverNode(id) \cap cmnl = {}

\* line 155: dispatcher_queue_.Pop(task), under the queue's own lock only
DispatchPop ==
  /\ fatal = "none" /\ dpc = "idle" /\ queue # << >>
  /\ dev' = Head(queue)
  /\ queue' = Tail(queue)
  /\ dpc' = "popped"
  /\ UNCHANGED dagVars
  /\ UNCHANGED << extern_rc, onDevice, num, target, fatal, cpc, cop, cmnl, cparams, crst >>
  /\ UNCHANGED << dnode, mnl, dtodo, pendingRC >>
  /\ UNCHANGED waitVars
  /\ UNCHANGED histVars

\* variant: pushing the task also counts the node as finished
DispatchRun_Counted ==
  /\ fatal = "none" /\ dpc = "popped"
  /\ HeadKind = "ToRun"
  /\ HeadId \in nodes /\ ntype[HeadId] = "op"
  /\ LockFree(HeadId)
  /\ onDevice' = onDevice \cup {HeadId}
  /\ pushCount' = [pushCount EXCEPT ![HeadId] = @ + 1]
  /\ num' = num - 1
  /\ dpc' = "idle" /\ dev' = NoEvent
  /\ UNCHANGED dagVars
  /\ UNCHANGED << extern_rc, queue, fatal, target, cpc, cop, cmnl, cparams, crst >>
  /\ UNCHANGED << dnode, mnl, dtodo, pendingRC >>
  /\ UNCHANGED waitVars
  /\ UNCHANGED << freeCount, freedBy, replays, gvCount, gvLast >>

\* lines 157-177: the popped event is (kToRun, op node): look the node up,
\* take MultiNodeLock(dag_, node) and push the task.  No step removes the node
\* of a popped event while the dispatcher waits for the lock, so the look-up
\* of line 157 gives the same node here.
DispatchRun ==
  /\ fatal = "none" /\ dpc = "popped"
  /\ HeadKind = "ToRun"
  /\ HeadId \in nodes => ntype[HeadId] = "op"
  /\ IF HeadId \notin nodes THEN
        /\ fatal' = "dag_->GetNode"
        /\ UNCHANGED << onDevice, pushCount, dpc, dev >>
     ELSE
        /\ LockFree(HeadId)
        /\ onDevice' = onDevice \cup {HeadId}
        /\ pushCount' = [pushCount EXCEPT ![HeadId] = @ + 1]
        /\ dpc' = "idle" /\ dev' = NoEvent
        /\ UNCHANGED fatal
  /\ UNCHANGED dagVars
  /\ UNCHANGED << extern_rc, queue, num, target, cpc, cop, cmnl, cparams, crst >>
  /\ UNCHANGED << dnode, mnl, dtodo, pendingRC >>
  /\ UNCHANGED waitVars
  /\ UNCHANGED << freeCount, freedBy, replays, gvCount, gvLast >>

\* lines 157-161, 177-217: the popped event is kToComplete, or kToRun of a
\* data node: look the node up and, inside MultiNodeLock(dag_, node), apply
\* the completion up to the loop over the successors, which will visit them
\* in some order
DispatchComplete ==
  /\ fatal = "none" /\ dpc = "popped"
  /\ HeadKind = "ToComplete" \/ (HeadId \in nodes /\ ntype[HeadId] = "data")
  /\ IF HeadId \notin nodes THEN
        /\ fatal' = "dag_->GetNode"
        /\ UNCHANGED << nodes, preds, succs, rt, dpc, dnode, mnl, dev, dtodo >>
        /\ UNCHANGED << freeCount, freedBy >>
     ELSE
        /\ LockFree(HeadId)
        /\ \E po \in Perms(preds[HeadId]), so \in Perms(succs[HeadId]),
              ub \in [preds[HeadId] -> IterOutcomes] :
             LET s == CompleteBody(DState, HeadId, po, ub)
             IN  /\ nodes' = s.nodes
                 /\ rt' = s.rt
                 /\ preds' = [n \in Ids |-> IF n \in s.del THEN {} ELSE s.preds[n]]
                 /\ succs' = [n \in Ids |-> IF n \in s.del THEN {} ELSE s.succs[n]]
                 /\ freeCount' = s.free
                 /\ freedBy' = [n \in Ids |->
                                 IF s.free[n] = freeCount[n] THEN freedBy[n]
                                 ELSE IF n = HeadId THEN "completion" ELSE "consumer"]
                 /\ fatal' = s.fatal
                 /\ IF s.fatal = "none"
                      THEN /\ dpc' = "trigger" /\ dnode' = HeadId
                           /\ mnl' = CoverNode(HeadId) /\ dev' = NoEvent
                           /\ dtodo' = so
                      ELSE UNCHANGED << dpc, dnode, mnl, dev, dtodo >>
  /\ UNCHANGED << nextId, ntype, extern_rc, queue, onDevice, num, target >>
  /\ UNCHANGED << cpc, cop, cmnl, cparams, crst, pendingRC >>
  /\ UNCHANGED waitVars
  /\ UNCHANGED << pushCount, replays, gvCount, gvLast >>

\* lines 218-223: the next successor of the loop: its trigger count is
\* decremented and, if it is ready, the in-flight counter is incremented
DispatchTrigger ==
  /\ fatal = "none" /\ dpc = "trigger" /\ dtodo # << >>
  /\ LET c == Head(dtodo) IN
       IF ~InRt(rt, c) THEN
          /\ fatal' = "rt_info_.At"
          /\ UNCHANGED << rt, num, dpc, dtodo >>
       ELSE
          /\ rt' = [rt EXCEPT ![c].num_triggers_needed = @ - 1]
          /\ IF TriggerReady(rt'[c])
               THEN num' = num + 1 /\ dpc' = "tpush" /\ UNCHANGED dtodo
               ELSE dtodo' = Tail(dtodo) /\ UNCHANGED << num, dpc >>
          /\ UNCHANGED fatal
  /\ UNCHANGED << nextId, nodes, ntype, preds, succs >>
  /\ UNCHANGED << extern_rc, queue, onDevice, target, cpc, cop, cmnl, cparams, crst >>
  /\ UNCHANGED << dnode, mnl, dev, pendingRC >>
  /\ UNCHANGED waitVars
  /\ UNCHANGED histVars

\* line 224: dispatcher_queue_.Push({kToRun, succ}), under the queue's own lock
DispatchTriggerPush ==
  /\ fatal = "none" /\ dpc = "tpush"
  /\ queue' = Append(queue, << "ToRun", Head(dtodo) >>)
  /\ dtodo' = Tail(dtodo)
  /\ dpc' = "trigger"
  /\ UNCHANGED dagVars
  /\ UNCHANGED << extern_rc, onDevice, num, target, fatal, cpc, cop, cmnl, cparams, crst >>
  /\ UNCHANGED << dnode, mnl, dev, pendingRC >>
  /\ UNCHANGED waitVars
  /\ UNCHANGED histVars

\* variant: the completion step does not decrement the counter
DispatchDecrement_Skip ==
  /\ fatal = "none" /\ dpc = "trigger" /\ dtodo = << >>
  /\ dpc' = "notify"
  /\ UNCHANGED dagVars
  /\ UNCHANGED << extern_rc, queue, onDevice, num, target, fatal, cpc, cop, cmnl, cparams, crst >>
  /\ UNCHANGED << dnode, mnl, dev, dtodo, pendingRC >>
  /\ UNCHANGED waitVars
  /\ UNCHANGED histVars

\* line 228: --num_nodes_yet_to_finish_, after the loop over the successors
DispatchDecrement ==
  /\ fatal = "none" /\ dpc = "trigger" /\ dtodo = << >>
  /\ num' = num - 1
  /\ dpc' = "notify"
  /\ UNCHANGED dagVars
  /\ UNCHANGED << extern_rc, queue, onDevice, target, fatal, cpc, cop, cmnl, cparams, crst >>
  /\ UNCHANGED << dnode, mnl, dev, dtodo, pendingRC >>
  /\ UNCHANGED waitVars
  /\ UNCHANGED histVars

\* line 231: the dispatcher broadcasts finish_cond_
NotifyCond == num = 0 \/ dnode = target

\* lines 229-239: under finish_mutex_, notify_all if the condition holds; then
\* the MultiNodeLock is released
DispatchNotify ==
  /\ fatal = "none" /\ dpc = "notify"
  /\ IF NotifyCond
       THEN /\ wpc' = [w \in Waiters |-> IF wpc[w] = "blocked" THEN "woken" ELSE wpc[w]]
            /\ wfa' = IF wfa = "blocked" THEN "woken" ELSE wfa
       ELSE UNCHANGED << wpc, wfa >>
  /\ dpc' = "idle" /\ dnode' = NoTarget /\ mnl' = {}
  /\ UNCHANGED dagVars
  /\ UNCHANGED << extern_rc, queue, onDevice, num, target, fatal, cpc, cop, cmnl, cparams, crst >>
  /\ UNCHANGED << dev, dtodo, pendingRC >>
  /\ UNCHANGED << wh, wfaOps >>
  /\ UNCHANGED histVars

\* ----------------------------------------------------------------- device
\* DagScheduler::OnOperationComplete, called once for a pushed task
OnOperationComplete(t) ==
  /\ fatal = "none"
  /\ t \in onDevice
  /\ onDevice' = onDevice \ {t}
  /\ queue' = Append(queue, << "ToComplete", t >>)
  /\ UNCHANGED dagVars
  /\ UNCHANGED << extern_rc, num, target, fatal, cpc, cop, cmnl, cparams, crst, dpc, dnode, mnl, dev, dtodo, pendingRC >>
  /\ UNCHANGED waitVars
  /\ UNCHANGED histVars

\* --------------------------------------------------------------- frontend
\* a frontend handle (DagChunk) is destroyed: --extern_rc; when it drops to 0
\* the chunk calls OnExternRCUpdate, which is a separate step
DropHandle(d) ==
  /\ fatal = "none"
  /\ d \in Handles
  /\ d \notin Range(cparams)
  /\ \A w \in Waiters : wpc[w] \in {"blocked", "woken"} => wh[w] # d
  /\ extern_rc' = [extern_rc EXCEPT ![d] = @ - 1]
  /\ pendingRC' = IF extern_rc[d] = 1 THEN pendingRC \cup {d} ELSE pendingRC
  /\ UNCHANGED dagVars
  /\ UNCHANGED << queue, onDevice, num, target, fatal, cpc, cop, cmnl, cparams, crst, dpc, dnode, mnl, dev, dtodo >>
  /\ UNCHANGED waitVars
  /\ UNCHANGED histVars

\* ExternReclaim with the test of extern_rc inverted
ExternReclaim_Inverted(ri, erc) ==
  ri.state = "Completed" /\ ri.reference_count = 0 /\ erc # 0

\* line 104: OnExternRCUpdate reclaims the node
ExternReclaim(ri, erc) ==
  ri.state = "Completed" /\ ri.reference_count = 0 /\ erc = 0

\* DagScheduler::OnExternRCUpdate.  On a node the dispatcher has removed and
\* deleted the call reads freed memory: it either aborts or has no effect.
OnExternRCUpdate(d, stale) ==
  /\ fatal = "none"
  /\ d \in pendingRC
  /\ pendingRC' = pendingRC \ {d}
  /\ IF d \notin nodes THEN
        /\ fatal' = IF stale = "abort" THEN "OnExternRCUpdate on a deleted node" ELSE fatal
        /\ UNCHANGED << nodes, preds, succs, rt, freeCount, freedBy >>
     ELSE
        /\ stale = "ignore"
        /\ CoverNode(d) \cap (mnl \cup cmnl) = {}
        /\ IF ExternReclaim(rt[d], extern_rc[d])
             THEN LET s == RemoveNode(FreeDataNodeRes(DState, d), d)
                  IN  /\ nodes' = s.nodes
                      /\ rt' = s.rt
                      /\ preds' = [n \in Ids |-> IF n \in s.del THEN {} ELSE s.preds[n]]
                      /\ succs' = [n \in Ids |-> IF n \in s.del THEN {} ELSE s.succs[n]]
                      /\ freeCount' = s.free
                      /\ freedBy' = [freedBy EXCEPT ![d] = "callback"]
             ELSE UNCHANGED << nodes, preds, succs, rt, freeCount, freedBy >>
        /\ UNCHANGED fatal
  /\ UNCHANGED << nextId, ntype, extern_rc, queue, onDevice, num, target >>
  /\ UNCHANGED << cpc, cop, cmnl, cparams, crst, dpc, dnode, mnl, dev, dtodo >>
  /\ UNCHANGED waitVars
  /\ UNCHANGED << pushCount, replays, gvCount, gvLast >>

\* WaitDone for a Wait that returns on any wake-up: the state is not tested again
WaitDone_AnyWake(h) == rt[h].state = "Completed" \/ \E w \in Waiters : wpc[w] = "woken" /\ wh[w] = h

\* line 59: the loop condition of Wait is false, Wait returns
WaitDone(h) == rt[h].state = "Completed"

\* DagScheduler::Wait, lines 56-60: under finish_mutex_ set target_, test the
\* state, and either return (target_ = -1) or block on finish_cond_.  The
\* frontend threads are interchangeable, so they are numbered in the order of
\* their calls.
WaitCall(w, h) ==
  /\ fatal = "none"
  /\ wpc[w] = "idle"
  /\ \A v \in Waiters : v < w => wpc[v] # "idle"
  /\ h \in Handles
  /\ wh' = [wh EXCEPT ![w] = h]
  /\ IF WaitDone(h)
       THEN /\ wpc' = [wpc EXCEPT ![w] = "done"]
            /\ target' = NoTarget
       ELSE /\ wpc' = [wpc EXCEPT ![w] = "blocked"]
            /\ target' = h
  /\ UNCHANGED dagVars
  /\ UNCHANGED << extern_rc, queue, onDevice, num, fatal, cpc, cop, cmnl, cparams, crst, dpc, dnode, mnl, dev, dtodo, pendingRC >>
  /\ UNCHANGED << wfa, wfaOps >>
  /\ UNCHANGED histVars

\* DagScheduler::Wait, lines 59-62: a notified waiter re-acquires finish_mutex_
\* and tests the state again
WaitWake(w) ==
  /\ fatal = "none"
  /\ wpc[w] = "woken"
  /\ IF WaitDone(wh[w])
       THEN /\ wpc' = [wpc EXCEPT ![w] = "done"]
            /\ target' = NoTarget
       ELSE /\ wpc' = [wpc EXCEPT ![w] = "blocked"]
            /\ UNCHANGED target
  /\ UNCHANGED dagVars
  /\ UNCHANGED << extern_rc, queue, onDevice, num, fatal, cpc, cop, cmnl, cparams, crst, dpc, dnode, mnl, dev, dtodo, pendingRC >>
  /\ UNCHANGED << wh, wfa, wfaOps >>
  /\ UNCHANGED histVars

\* the op nodes whose Create has returned
ReturnedOps ==
  { i \in 0 .. (nextId - 1) : ntype[i] = "op" } \ (IF cpc = "push" THEN {cop} ELSE {})

\* line 72: the loop condition of WaitForAll is false, WaitForAll returns
WaitForAllDone == num = 0

\* DagScheduler::WaitForAll, lines 66-73
WaitForAllCall ==
  /\ fatal = "none"
  /\ wfa = "idle"
  /\ wfaOps' = ReturnedOps
  /\ IF target # NoTarget
       THEN /\ fatal' = "CHECK_EQ(target_, -1)"
            /\ UNCHANGED wfa
       ELSE /\ wfa' = IF WaitForAllDone THEN "done" ELSE "blocked"
            /\ UNCHANGED fatal
  /\ UNCHANGED dagVars
  /\ UNCHANGED << extern_rc, queue, onDevice, num, target, cpc, cop, cmnl, cparams, crst, dpc, dnode, mnl, dev, dtodo, pendingRC >>
  /\ UNCHANGED << wpc, wh >>
  /\ UNCHANGED histVars

\* DagScheduler::WaitForAll, lines 72-74: a notified waiter tests the counter
WaitForAllWake ==
  /\ fatal = "none"
  /\ wfa = "woken"
  /\ wfa' = IF WaitForAllDone THEN "done" ELSE "blocked"
  /\ UNCHANGED dagVars
  /\ UNCHANGED << extern_rc, queue, onDevice, num, target, fatal, cpc, cop, cmnl, cparams, crst, dpc, dnode, mnl, dev, dtodo, pendingRC >>
  /\ UNCHANGED << wpc, wh, wfaOps >>
  /\ UNCHANGED histVars

\* DagScheduler::GetValue has no test of the node's state: it asks the device
\* manager for the pointer and copies.  For a node that is not Completed the
\* device storage may not exist yet, so the copy either aborts or returns
\* whatever the storage holds.
GetValue(d, outcome) ==
  /\ fatal = "none"
  /\ gvCount < MaxGetValues
  /\ d \in Handles
  /\ rt[d].state = "Completed" => outcome = "array"
  /\ gvCount' = gvCount + 1
  /\ gvLast' = << d, outcome >>
  /\ fatal' = IF outcome = "abort" THEN "GetPtr" ELSE fatal
  /\ UNCHANGED dagVars
  /\ UNCHANGED << extern_rc, queue, onDevice, num, target, cpc, cop, cmnl, cparams, crst, dpc, dnode, mnl, dev, dtodo, pendingRC >>
  /\ UNCHANGED waitVars
  /\ UNCHANGED << pushCount, freeCount, freedBy, replays >>

\* OnOperationComplete called a second time for a task that was already reported
ReplayComplete(t) ==
  /\ fatal = "none"
  /\ replays < MaxReplays
  /\ ntype[t] = "op" /\ pushCount[t] > 0 /\ t \notin onDevice
  /\ replays' = replays + 1
  /\ queue' = Append(queue, << "ToComplete", t >>)
  /\ UNCHANGED dagVars
  /\ UNCHANGED << extern_rc, onDevice, num, target, fatal, cpc, cop, cmnl, cparams, crst, dpc, dnode, mnl, dev, dtodo, pendingRC >>
  /\ UNCHANGED waitVars
  /\ UNCHANGED << pushCount, freeCount, freedBy, gvCount, gvLast >>

\* ---------------------------------------------------------- specifications
\* submission, dispatch and completion
SchedNext ==
  \/ \E params \in SeqsUpTo(Handles, MaxParams), nres \in 1 .. MaxResults : CreateNodes(params, nres)
  \/ CreateOp
  \/ CreatePush
  \/ DispatchPop
  \/ DispatchRun
  \/ DispatchComplete
  \/ DispatchTrigger
  \/ DispatchTriggerPush
  \/ DispatchDecrement
  \/ DispatchNotify
  \/ \E t \in Ids : OnOperationComplete(t)

\* handle drops and their callback
GcNext ==
  \/ \E d \in Ids : DropHandle(d)
  \/ \E d \in Ids, stale \in {"abort", "ignore"} : OnExternRCUpdate(d, stale)

WaitForAllNext == WaitForAllCall \/ WaitForAllWake

WaitNext ==
  \/ \E w \in Waiters, h \in Ids : WaitCall(w, h)
  \/ \E w \in Waiters : WaitWake(w)

\* the scheduler with handle drops; every pushed task is reported complete
\* exactly once.  Wait, WaitForAll and GetValue write none of the variables of
\* the DAG, the queue and the counters, so they are left to the
\* specifications below.
Next == SchedNext \/ GcNext

Spec == Init /\ [][Next]_vars

\* the scheduler with handle drops and a frontend thread in WaitForAll
WaitForAllSpecNext == SchedNext \/ GcNext \/ WaitForAllNext

WaitForAllSpec == Init /\ [][WaitForAllSpecNext]_vars

\* the scheduler with frontend threads in Wait
WaitSpecNext == SchedNext \/ WaitNext

WaitSpec == Init /\ [][WaitSpecNext]_vars

\* the scheduler with GetValue calls
GetValueNext ==
  SchedNext \/ \E d \in Ids, outcome \in {"array", "abort"} : GetValue(d, outcome)

GetValueSpec == Init /\ [][GetValueNext]_vars

\* the scheduler with frontend threads in Wait and one in WaitForAll
WaitBothSpecNext == SchedNext \/ WaitNext \/ WaitForAllNext

WaitBothSpec == Init /\ [][WaitBothSpecNext]_vars

\* a device may report a task a second time
ReplayNext == SchedNext \/ \E t \in Ids : ReplayComplete(t)

ReplaySpec == Init /\ [][ReplayNext]_vars

\* ------------------------------------------------------------- properties
CreatedOps == { i \in 0 .. (nextId - 1) : ntype[i] = "op" }
CreatedData == { i \in 0 .. (nextId - 1) : ntype[i] = "data" }

\* an op node has reached Completed: it is Completed in rt_info_, or it was
\* retired from the DAG, which happens only after its completion
OpCompleted(o) == o \notin nodes \/ rt[o].state = "Completed"

\* nothing is queued, on a device or in the middle of a step
Quiescent ==
  /\ fatal = "none"
  /\ queue = << >> /\ onDevice = {}
  /\ dpc = "idle" /\ cpc = "idle"

\* C1: once every pushed task has been reported and the dispatcher has drained
\* its queue, num_nodes_yet_to_finish_ is 0 and every created op node has
\* reached Completed (so WaitForAll returns), whatever the params lists were.
C1_EventualCompletion ==
  Quiescent => (num = 0 /\ \A o \in CreatedOps : OpCompleted(o))

\* C2: an op node is pushed to a device only in a state where all of its
\* predecessor data nodes are Completed, and no op node is pushed twice.
C2_PushWhenInputsCompleted ==
  [][\A o \in Ids :
       pushCount'[o] # pushCount[o] =>
         /\ pushCount[o] = 0
         /\ \A p \in preds[o] : p \in nodes /\ rt[p].state = "Completed"]_vars

\* C2 witness: an op node with two distinct inputs has been pushed
C2_Witness ==
  \E o \in CreatedOps : pushCount[o] = 1 /\ Cardinality(preds[o]) = 2

\* C3: after WaitForAll has returned, with nothing in flight, every handle
\* dropped and every OnExternRCUpdate delivered, no data node is left in the
\* DAG and FreeData was called exactly once for every value id.
C3_NoLeaks ==
  ( /\ wfa = "done" /\ Quiescent
    /\ \A d \in CreatedData : extern_rc[d] = 0
    /\ pendingRC = {} )
  => ( /\ \A d \in CreatedData : d \notin nodes
       /\ \A d \in CreatedData : freeCount[d] = 1 )

\* C4: no step frees or removes a data node whose extern_rc is greater than 0.
C4_PinnedByExternRC ==
  [][\A d \in Ids :
       (d \in nodes /\ ntype[d] = "data" /\ extern_rc[d] > 0) =>
         (d \in nodes' /\ InRt(rt', d) /\ freeCount'[d] = freeCount[d])]_vars

\* C4 witness: a Completed data node that no consumer needs any more was kept
\* by the dispatcher because a handle pins it
C4_Witness ==
  \E d \in nodes :
    /\ ntype[d] = "data" /\ extern_rc[d] > 0
    /\ rt[d].state = "Completed" /\ rt[d].reference_count = 0
    /\ \E o \in CreatedOps : o \notin nodes

\* the step is the OnExternRCUpdate call for the live data node d
ExternRCStep(d) == d \in pendingRC /\ d \notin pendingRC' /\ d \in nodes

\* the step frees the value id of d and removes d from the DAG and rt_info_
Reclaimed(d) ==
  d \notin nodes' /\ ~InRt(rt', d) /\ freeCount'[d] = freeCount[d] + 1

\* C5 as stated: OnExternRCUpdate on a data node with extern_rc = 0 and
\* reference_count = 0 reclaims it before it returns, in state Ready as well
\* as in state Completed.
C5_Original ==
  [][\A d \in Ids :
       (ExternRCStep(d) /\ rt[d].reference_count = 0) => Reclaimed(d)]_vars

\* C5 amended: OnExternRCUpdate on a data node with extern_rc = 0 and
\* reference_count = 0 reclaims it before it returns if the node is Completed;
\* a node that is still Ready is left in the DAG with its value id.
C5_ReclaimOnDropIfCompleted ==
  [][\A d \in Ids :
       (ExternRCStep(d) /\ rt[d].reference_count = 0) =>
         IF rt[d].state = "Completed"
           THEN Reclaimed(d)
           ELSE d \in nodes' /\ InRt(rt', d) /\ freeCount'[d] = freeCount[d]]_vars

\* C5 witness: a data node was reclaimed by OnExternRCUpdate
C5_Witness ==
  \E d \in CreatedData : d \notin nodes /\ freedBy[d] = "callback" /\ freeCount[d] = 1

\* C6: a Wait returns only in a state where the node of its handle is Completed.
C6_WaitReturnsOnlyCompleted ==
  [][\A w \in Waiters :
       (wpc[w] # "done" /\ wpc'[w] = "done") =>
         (wh'[w] \in nodes' /\ rt'[wh'[w]].state = "Completed")]_vars

\* C6 witness: one Wait has returned while another waiter, woken by that
\* completion, finds its own node not Completed
C6_Witness ==
  \E w, v \in Waiters :
    /\ wpc[w] = "done"
    /\ wpc[v] = "woken" /\ rt[wh[v]].state # "Completed"

\* C7: with the frontend threads waiting on different handles, once the
\* dispatcher has finished the step that completes the node of a handle, no
\* Wait on that handle is still blocked on finish_cond_ without having been
\* notified (such a waiter could return only if a later completion notified it).
C7_WaiterNotifiedOnCompletion ==
  (\A v, w \in Waiters : (v # w /\ wpc[v] # "idle") => wh[v] # wh[w])
  => \A w \in Waiters :
       (wpc[w] = "blocked" /\ dpc = "idle") => rt[wh[w]].state # "Completed"

\* C8: WaitForAll does not return while an op node whose Create returned
\* before the WaitForAll call has not reached Completed.
C8_WaitForAllSeesSubmitted ==
  [][(wfa # "done" /\ wfa' = "done") =>
       \A o \in wfaOps' : o \notin nodes' \/ rt'[o].state = "Completed"]_vars

\* the dispatcher step processes a popped ToComplete event of an op node that
\* is already Completed or already retired
ReplayedStep ==
  /\ dpc = "popped"
  /\ HeadKind = "ToComplete"
  /\ HeadId \notin nodes \/ rt[HeadId].state = "Completed"
  /\ DispatchComplete

\* C9: the dispatcher step for a replayed completion ends in a fatal error and
\* changes no counter and reclaims no node.
C9_ReplayDetected ==
  [][ReplayedStep =>
       /\ fatal' # "none"
       /\ rt' = rt /\ num' = num /\ nodes' = nodes /\ freeCount' = freeCount]_vars

\* C10: GetValue on a data node that is not Completed ends in a fatal error
\* and returns no array.
C10_GetValueRequiresCompleted ==
  [][\A d \in Ids :
       (gvCount' # gvCount /\ gvLast'[1] = d /\ rt[d].state # "Completed") =>
         (gvLast'[2] = "abort" /\ fatal' # "none")]_vars

\* a Wait of thread w is in progress: it has not returned yet
WaitInProgress(w) == wpc[w] \in {"blocked", "woken"}

\* C11: a WaitForAll call made while some Wait is in progress ends in a fatal
\* error; a call made while no Wait is in progress finds target_ = -1 and
\* goes on; and the step in which a Wait returns leaves target_ = -1.
C11_WaitForAllRejectsDuringWait ==
  [][/\ (WaitForAllCall /\ \E w \in Waiters : WaitInProgress(w))
          => fatal' # "none"
     /\ (WaitForAllCall /\ \A w \in Waiters : ~WaitInProgress(w))
          => (target = NoTarget /\ fatal' = "none" /\ wfa' \in {"blocked", "done"})
     /\ \A w \in Waiters :
          (wpc[w] # "done" /\ wpc'[w] = "done") => target' = NoTarget]_vars

\* C12: finish_mutex_ is a leaf lock: the dispatcher, at the point where it
\* acquires finish_mutex_ for the notification, holds no MultiNodeLock (Wait
\* and WaitForAll take no MultiNodeLock at all, Create and OnExternRCUpdate
\* never take finish_mutex_).
C12_FinishMutexIsLeaf ==
  dpc = "notify" => mnl = {}

\* a data node that nothing pins any more: Completed, no consumer left and
\* no handle left
Unpinned(d) ==
  /\ d \in nodes /\ ntype[d] = "data"
  /\ rt[d].state = "Completed"
  /\ rt[d].reference_count = 0
  /\ extern_rc[d] = 0

\* the dispatcher is between the acquisition of the MultiNodeLock (line 160)
\* and the end of the notification (line 234)
InCriticalSection == dpc \in { "trigger", "tpush", "notify" }

\* a data node that nothing can reach any more: Completed, every op that
\* reads it Completed or retired, and no handle left
Unreachable(d) ==
  /\ d \in nodes /\ ntype[d] = "data"
  /\ rt[d].state = "Completed"
  /\ \A c \in succs[d] : rt[c].state = "Completed"
  /\ extern_rc[d] = 0

\* C13: eager reclamation: device storage of a data node is released in the
\* very step in which the node becomes unreachable, so that whenever the
\* dispatcher is not inside a critical section and no OnExternRCUpdate call
\* is pending, no unreachable data node is left in the DAG; in particular
\* the DAG then holds no Completed data node with reference_count = 0 and
\* extern_rc = 0.
C13_EagerReclamation ==
  (fatal = "none" /\ ~InCriticalSection /\ pendingRC = {}) =>
    \A d \in Ids : ~Unreachable(d) /\ ~Unpinned(d)

\* number of distinct predecessors of n that are still Ready
ReadyPreds(n) == Cardinality({ p \in preds[n] : rt[p].state = "Ready" })

\* number of successors of n that are not yet Completed
PendingSuccs(n) == Cardinality({ c \in succs[n] : rt[c].state # "Completed" })

\* C14: (I2) every live node in state Ready has num_triggers_needed equal to
\* the number of its distinct predecessors that are in state Ready, also for
\* an op created with the same handle twice in params (read while the
\* dispatcher is not inside its critical section, where it has marked a node
\* Completed and not yet visited all its successors).
C14_TriggersMatchReadyPreds ==
  (fatal = "none" /\ ~InCriticalSection) =>
    \A n \in nodes :
      rt[n].state = "Ready" => rt[n].num_triggers_needed = ReadyPreds(n)

\* C15: every live node's reference_count is nonnegative and equals the
\* number of its successors that are not yet Completed.
C15_RefCountMatchesPendingSuccs ==
  fatal = "none" =>
    \A n \in nodes :
      /\ rt[n].reference_count >= 0
      /\ rt[n].reference_count = PendingSuccs(n)

\* nodes enqueued as ToRun whose completion step has not finished: events in
\* the queue (ToRun and ToComplete) and tasks on devices
InFlight == Len(queue) + Cardinality(onDevice)

\* C16 as stated: in every reachable state num_nodes_yet_to_finish_ equals
\* the number of ToRun events in the queue, tasks on devices and ToComplete
\* events in the queue; it is never negative, and it is 0 only when the queue
\* is empty and no task is on a device.
C16_Original ==
  fatal = "none" =>
    /\ num = InFlight
    /\ num >= 0
    /\ num = 0 => (queue = << >> /\ onDevice = {})

\* C16 amended: the counter is ahead of the queue and the devices by one while
\* Create stands between its increment (line 146) and its enqueue (line 147),
\* by one while the dispatcher holds an event it has popped (line 155) and has
\* not reached the decrement of line 228, and by one more while it stands
\* between the increment of line 223 and the enqueue of line 224; it is
\* never negative, and it is 0 only when the queue is empty and no task is on
\* a device.
C16_CounterCoversInFlight ==
  fatal = "none" =>
    /\ num = InFlight + (IF cpc = "push" THEN 1 ELSE 0)
                      + (IF dpc \in { "popped", "trigger", "tpush" } THEN 1 ELSE 0)
                      + (IF dpc = "tpush" THEN 1 ELSE 0)
    /\ num >= 0
    /\ num = 0 => (queue = << >> /\ onDevice = {})

\* C16 case: Create has incremented the counter and not yet enqueued, while
\* an earlier task is on a device
C16_Witness ==
  /\ fatal = "none" /\ cpc = "push"
  /\ onDevice # {}
  /\ num = InFlight + 1

\* the dispatcher pops the event (ToRun, o) of a live op node o
PopsRunEvent(o) ==
  /\ dpc = "idle" /\ dpc' = "popped"
  /\ queue # << >> /\ queue[1] = << "ToRun", o >>
  /\ o \in nodes /\ ntype[o] = "op"

\* the dispatcher processes the popped event (ToRun, o) of a live op node o
RunsPoppedEvent(o) ==
  /\ dpc = "popped" /\ dpc' # "popped"
  /\ dev = << "ToRun", o >>
  /\ o \in nodes /\ ntype[o] = "op"

\* the step changes neither a node's state or counters, nor the in-flight
\* counter, nor the DAG, and wakes no waiter
StateNeutral ==
  /\ rt' = rt /\ num' = num
  /\ nodes' = nodes /\ preds' = preds /\ succs' = succs
  /\ wpc' = wpc /\ wfa' = wfa /\ target' = target
  /\ fatal' = "none"

\* C17: the dispatcher step for a (ToRun, op) event, that is the pop and the
\* processing of the popped event, pushes exactly one task, with the op's
\* node id, and leaves unchanged the op's state (Ready), all reference counts
\* and trigger counts, num_nodes_yet_to_finish_, the nodes and edges of the
\* DAG and the queue apart from the popped event; it does not reach the
\* notification and wakes no waiter.
C17_DispatchIsStateNeutral ==
  [][\A o \in Ids :
       /\ PopsRunEvent(o) =>
            /\ queue' = Tail(queue) /\ dev' = queue[1]
            /\ onDevice' = onDevice /\ pushCount' = pushCount
            /\ StateNeutral
       /\ RunsPoppedEvent(o) =>
            /\ onDevice' = onDevice \cup {o}
            /\ pushCount' = [pushCount EXCEPT ![o] = @ + 1]
            /\ rt[o].state = "Ready"
            /\ queue' = queue /\ dpc' = "idle"
            /\ StateNeutral]_vars

\* C17 case: an op's task was pushed once and is on a device, the op is
\* still Ready and a waiter is still blocked
C17_Witness ==
  /\ fatal = "none"
  /\ \E o \in onDevice : pushCount[o] = 1 /\ rt[o].state = "Ready"
  /\ \E w \in Waiters : wpc[w] = "blocked"

\* the step completes data node d: d was Ready and is Completed afterwards,
\* or was reclaimed in the same step
CompletesData(d) ==
  /\ d \in nodes /\ ntype[d] = "data" /\ rt[d].state = "Ready"
  /\ d \notin nodes' \/ rt'[d].state = "Completed"

\* d is the last output of op o that is not yet Completed
LastOutput(o, d) ==
  /\ d \in succs[o]
  /\ \A e \in succs[o] \ {d} : rt[e].state = "Completed"

\* no live op node is Completed with reference_count = 0 once the dispatcher
\* has left its step, and every op named by a queued event or by a task on a
\* device is in the DAG
RetiredOpsAreIdle ==
  /\ ~InCriticalSection =>
       \A o \in nodes : ntype[o] = "op" =>
         ~(rt[o].state = "Completed" /\ rt[o].reference_count = 0)
  /\ \A i \in 1 .. Len(queue) : ntype[queue[i][2]] = "op" => queue[i][2] \in nodes
  /\ (dpc = "popped" /\ ntype[dev[2]] = "op") => dev[2] \in nodes
  /\ \A o \in onDevice : o \in nodes

\* C18: (I6) an op node with at least one output leaves the DAG and the
\* runtime-info map in exactly the dispatcher step that completes its last
\* output not yet Completed, and in no other step; outside the dispatcher's
\* step no live op node is Completed with reference_count = 0, and no op node
\* is removed while an event naming it is queued or its task is on a device.
C18_OpRetiredWithLastOutput ==
  /\ []RetiredOpsAreIdle
  /\ [][\A o \in nodes : (ntype[o] = "op" /\ succs[o] # {}) =>
          /\ (o \notin nodes') <=>
               (\E d \in succs[o] : CompletesData(d) /\ LastOutput(o, d))
          /\ (o \notin nodes') => ~InRt(rt', o)]_vars

\* C18 case: an op with two outputs was retired by the completion step of
\* its second output, the first one still being in the DAG
C18_Witness ==
  /\ fatal = "none" /\ dpc = "notify"
  /\ ntype[dnode] = "data"
  /\ \E o \in CreatedOps : \E e \in nodes :
        /\ o \notin nodes
        /\ {dnode, e} \subseteq (o - 2) .. (o - 1) /\ e # dnode
        /\ ntype[e] = "data" /\ rt[e].state = "Completed"

\* C19: a handle drop in two steps (extern_rc to 0, then OnExternRCUpdate)
\* racing with the completion that takes the node's reference_count to 0:
\* the node's value id is freed at most once, and OnExternRCUpdate never runs
\* on a node that the dispatcher has already removed.
C19_DropRaceReclaimsOnce ==
  /\ [](\A d \in Ids : freeCount[d] <= 1)
  /\ [][\A d \in pendingRC : d \notin pendingRC' => d \in nodes]_vars

\* the fatal errors DispatcherRoutine can raise: GetNode and rt_info_.At on
\* a missing node, the CHECKs of lines 184, 189, 206 and 209, and the loop of
\* line 185 running on after its element was erased
DispatcherChecks ==
  { "dag_->GetNode", "rt_info_.At", "op generated but not needed",
    "triggers of data node", "data node predecessors", "triggers of op node",
    "predecessors_ iterator" }

\* C20: with at least one output per op and every pushed task reported
\* once, the dispatcher never aborts: every event it pops names a node in the
\* DAG, the predecessors of a completing op have num_triggers_needed = 0, and
\* a completing data node has exactly one predecessor op, with
\* num_triggers_needed = 0, also when the data node was reclaimed earlier in
\* the same step.
C20_DispatcherChecksHold ==
  /\ fatal \notin DispatcherChecks
  /\ \A i \in 1 .. Len(queue) : queue[i][2] \in nodes
  /\ dpc = "popped" => dev[2] \in nodes

====
